---- MODULE Spec2Model ----
(***************************************************************************)
(* Model of pkg/process of backend-toolkit: the lifecycle coordinator      *)
(* AsyncStartWithSignalHandler, the fault-containment seam SafeRunSync     *)
(* and the Process value they work on.                                     *)
(*                                                                         *)
(* One lifecycle is modelled: a caller that calls                          *)
(* AsyncStartWithSignalHandler(ctx, process) and then (possibly) the       *)
(* returned wait function, the goroutine launched by start, and the        *)
(* environment that cancels ctx or delivers SIGINT.                        *)
(***************************************************************************)
EXTENDS Integers, Sequences, FiniteSets, TLC

(***************************************************************************)
(* Bounds                                                                  *)
(***************************************************************************)
\* number of SIGINT deliveries the environment performs in one lifecycle
MaxSignals == 1

(***************************************************************************)
(* Error values: nil, or an error with the package that built it (impl),   *)
(* its message and its code                                                *)
(***************************************************************************)
\* the nil error
NoError == [isNil |-> TRUE, impl |-> "", msg |-> "", code |-> ""]

\* errors.New(msg)
New(msg) == [isNil |-> FALSE, impl |-> "errors", msg |-> msg, code |-> ""]

\* errors.NewCode(code)
NewCode(code) == [isNil |-> FALSE, impl |-> "errors", msg |-> "", code |-> code]

ErrInvalidProcess == "ErrInvalidProcess"

\* fmt.Errorf(msg): an error value of the standard library, which is not the
\* value errors.New(msg) of this repository
Errorf(msg) == [isNil |-> FALSE, impl |-> "fmt", msg |-> msg, code |-> ""]

\* errSample of the tests, and the two errors of the override test
errSample == Errorf("sample error")
errRun == Errorf("run error")
errInterrupt == Errorf("interrupt error")

(***************************************************************************)
(* fmt.Sprintf("%v", recovered) for the payloads used: a non-negative int  *)
(* is printed in decimal.                                                  *)
(***************************************************************************)
Digit(d) == CASE d = 0 -> "0" [] d = 1 -> "1" [] d = 2 -> "2" [] d = 3 -> "3"
              [] d = 4 -> "4" [] d = 5 -> "5" [] d = 6 -> "6" [] d = 7 -> "7"
              [] d = 8 -> "8" [] d = 9 -> "9"

RECURSIVE Sprintf(_)
Sprintf(n) == IF n < 10 THEN Digit(n) ELSE Sprintf(n \div 10) \o Digit(n % 10)

(***************************************************************************)
(* Panic payloads: an error value, or a bare int                           *)
(***************************************************************************)
NoPayload == [isError |-> FALSE, err |-> NoError, val |-> 0]
PanicErr(e) == [isError |-> TRUE, err |-> e, val |-> 0]
PanicInt(n) == [isError |-> FALSE, err |-> NoError, val |-> n]

(***************************************************************************)
(* Process: Run and Interrupt are functions or nil.  A function is         *)
(* described by what it does when invoked.                                 *)
(*   Run:       blocks "no" (returns at once), "untilStop" (returns once   *)
(*              the stop signal was sent), "forever";                      *)
(*              ends "return" with ret, or "panic" with payload.           *)
(*   Interrupt: sendsStop (sends the stop signal to Run), waitsDone        *)
(*              (returns only after the Run body has returned);            *)
(*              ends "return" with ret, or "panic".                        *)
(***************************************************************************)
NilRunFunc == [isNil |-> TRUE, blocks |-> "no", ends |-> "return",
               ret |-> NoError, payload |-> NoPayload]

RunReturning(b, e) == [isNil |-> FALSE, blocks |-> b, ends |-> "return",
                       ret |-> e, payload |-> NoPayload]

RunPanicking(b, p) == [isNil |-> FALSE, blocks |-> b, ends |-> "panic",
                       ret |-> NoError, payload |-> p]

RunFuncs ==
    {RunReturning(b, e) : b \in {"no", "untilStop"}, e \in {NoError, errRun}}
    \cup {RunPanicking(b, p) : b \in {"no", "untilStop"},
                               p \in {PanicErr(errSample), PanicInt(2), PanicInt(42)}}
    \cup {RunReturning("forever", NoError)}

NilInterruptFunc == [isNil |-> TRUE, sendsStop |-> FALSE, waitsDone |-> FALSE,
                     ends |-> "return", ret |-> NoError]

InterruptFuncs ==
    {[isNil |-> FALSE, sendsStop |-> s, waitsDone |-> w, ends |-> "return", ret |-> e] :
        s \in BOOLEAN, w \in BOOLEAN, e \in {NoError, errInterrupt}}
    \cup {[isNil |-> FALSE, sendsStop |-> s, waitsDone |-> w, ends |-> "panic", ret |-> NoError] :
        s \in BOOLEAN, w \in BOOLEAN}

Processes == [Run : RunFuncs \cup {NilRunFunc},
              Interrupt : InterruptFuncs \cup {NilInterruptFunc}]

\* Valid with "or" in place of "and": a Process with one function passes
Valid_EitherSet(p) == ~p.Run.isNil \/ ~p.Interrupt.isNil

\* func (p Process) Valid() bool
Valid(p) == ~p.Run.isNil /\ ~p.Interrupt.isNil

(***************************************************************************)
(* Runnable: an object with Start() error and Stop() error, and the        *)
(* Process StartWithSignalHandler builds from it                           *)
(***************************************************************************)
NoRunnable == [set |-> FALSE, Start |-> NilRunFunc, Stop |-> NilInterruptFunc]

Runnables == [set : {TRUE}, Start : RunFuncs, Stop : InterruptFuncs]

\* the Process literal with Interrupt left out
Lift_WithoutStop(r) == [Run |-> r.Start, Interrupt |-> NilInterruptFunc]

\* process := Process{Run: runnable.Start, Interrupt: runnable.Stop}
Lift(r) == [Run |-> r.Start, Interrupt |-> r.Stop]

\* SafeRunSync recovering the panic without recording it in err
SafeRunSync_SwallowsPanic(proc) ==
    NoError

\* SafeRunSync without the type assertion on the recovered value: every
\* payload is formatted into a new error
SafeRunSync_AlwaysFormats(proc) ==
    IF proc.ends = "panic"
    THEN IF proc.payload.isError
         THEN New(proc.payload.err.msg)
         ELSE New(Sprintf(proc.payload.val))
    ELSE NoError

(***************************************************************************)
(* SafeRunSync(proc): proc is invoked inside a function literal whose      *)
(* deferred function recovers a panic.  The call statement is "proc()":    *)
(* the value proc returns is not assigned, err is set by the recover       *)
(* branch only.                                                            *)
(***************************************************************************)
SafeRunSync(proc) ==
    IF proc.ends = "panic"
    THEN IF proc.payload.isError
         THEN proc.payload.err
         ELSE New(Sprintf(proc.payload.val))
    ELSE NoError

(***************************************************************************)
(* State                                                                   *)
(***************************************************************************)
VARIABLES
    process,          \* the Process handed to start
    ctxDone,          \* the caller's ctx is cancelled
    sigCount,         \* SIGINTs delivered to the OS process so far
    sCtx,             \* signal-aware child context: "none", "open", "done"
    notify,           \* listeners registered with os/signal by this lifecycle
    done,             \* the channel done (capacity 1), as a sequence
    pc,               \* position of the caller
    runPc,            \* position of the goroutine launched by start
    runErr,           \* err of the goroutine (result of SafeRunSync)
    err,              \* err of waitFunc
    waitFunc,         \* first result of start: "unset", "nil", "func"
    startErr,         \* second result of start
    waitResult,       \* value returned by wait
    runCalled,        \* invocations of process.Run
    interruptCalled,  \* invocations of process.Interrupt
    stopCh,           \* the Operation's local stop signal (pending sends)
    bodyDone,         \* the Run body has returned or panicked
    path,             \* branch taken by wait's first select
    trigger,          \* which trigger fired first: "none", "ctx", "run"
    checkSaw,         \* what the second select received: "unset", "empty", "value"
    atCall,           \* triggers already fired when wait was called
    runnable,         \* the Runnable handed to StartWithSignalHandler, if any
    doneWrites,       \* sends performed on done
    deliveredAt,      \* position of the caller when done was written
    \* SafeRunSync and SafeRunAsync called on their own
    proc,             \* the action handed to SafeRunSync and SafeRunAsync
    syncPc,           \* caller of SafeRunSync: "idle", "running", "returned"
    syncErr,          \* value returned by SafeRunSync
    syncCalled,       \* invocations of proc by SafeRunSync
    asyncPc,          \* caller of SafeRunAsync: "idle", "launched", "returned", "received"
    goPc,             \* goroutine of SafeRunAsync
    goErr,            \* err of that goroutine
    out,              \* the channel out (capacity 1), as a sequence
    outWrites,        \* sends performed on out
    recv,             \* value the caller received from out
    asyncCalled       \* invocations of proc by SafeRunAsync

invokerVars == <<proc, syncPc, syncErr, syncCalled, asyncPc, goPc, goErr, out,
                 outWrites, recv, asyncCalled>>

lifecycleVars == <<process, ctxDone, sigCount, sCtx, notify, done, pc, runPc,
                   runErr, err, waitFunc, startErr, waitResult, runCalled,
                   interruptCalled, stopCh, bodyDone, path, trigger, checkSaw,
                   atCall, runnable, doneWrites, deliveredAt>>

vars == <<lifecycleVars, invokerVars>>

\* no call of SafeRunSync or SafeRunAsync is under way
InvokerIdle ==
    /\ syncPc = "idle"
    /\ syncErr = NoError
    /\ syncCalled = 0
    /\ asyncPc = "idle"
    /\ goPc = "none"
    /\ goErr = NoError
    /\ out = << >>
    /\ outWrites = 0
    /\ recv = NoError
    /\ asyncCalled = 0

\* no lifecycle has been started
LifecycleIdle ==
    /\ sigCount = 0
    /\ sCtx = "none"
    /\ notify = 0
    /\ done = << >>
    /\ pc = "init"
    /\ runPc = "none"
    /\ runErr = NoError
    /\ err = NoError
    /\ waitFunc = "unset"
    /\ startErr = NoError
    /\ waitResult = NoError
    /\ runCalled = 0
    /\ interruptCalled = 0
    /\ stopCh = 0
    /\ bodyDone = FALSE
    /\ path = "none"
    /\ trigger = "none"
    /\ checkSaw = "unset"
    /\ atCall = "unset"
    /\ runnable = NoRunnable
    /\ doneWrites = 0
    /\ deliveredAt = "never"

Init ==
    /\ process \in Processes
    /\ ctxDone \in BOOLEAN
    /\ LifecycleIdle
    /\ proc = NilRunFunc
    /\ InvokerIdle

(***************************************************************************)
(* Environment                                                             *)
(***************************************************************************)
\* the trigger that fired first, after an interruption of an open sCtx
TriggerOnInterrupt == IF sCtx = "open" /\ trigger = "none" THEN "ctx" ELSE trigger

\* the caller (or a deadline) cancels ctx; the cancellation reaches sCtx
CancelCtx ==
    /\ ~ctxDone
    /\ ctxDone' = TRUE
    /\ sCtx' = IF sCtx = "open" THEN "done" ELSE sCtx
    /\ trigger' = TriggerOnInterrupt
    /\ UNCHANGED <<process, sigCount, notify, done, pc, runPc, runErr, err,
                   waitFunc, startErr, waitResult, runCalled, interruptCalled,
                   stopCh, bodyDone, path, checkSaw, atCall,
                   runnable, doneWrites, deliveredAt, invokerVars>>

\* SIGINT is delivered while the lifecycle's listener is registered
DeliverSignal ==
    /\ notify > 0
    /\ sigCount < MaxSignals
    /\ sigCount' = sigCount + 1
    /\ sCtx' = IF sCtx = "open" THEN "done" ELSE sCtx
    /\ trigger' = TriggerOnInterrupt
    /\ UNCHANGED <<process, ctxDone, notify, done, pc, runPc, runErr, err,
                   waitFunc, startErr, waitResult, runCalled, interruptCalled,
                   stopCh, bodyDone, path, checkSaw, atCall,
                   runnable, doneWrites, deliveredAt, invokerVars>>

(***************************************************************************)
(* AsyncStartWithSignalHandler                                             *)
(***************************************************************************)
\* StartWithSignalHandler(ctx, runnable): builds the Process and hands it to
\* AsyncStartWithSignalHandler, whose steps follow
StartWithSignalHandler ==
    /\ pc = "init"
    /\ ~runnable.set
    /\ \E r \in Runnables :
          /\ runnable' = r
          /\ process' = Lift(r)
    /\ UNCHANGED <<ctxDone, sigCount, sCtx, notify, done, pc, runPc, runErr, err,
                   waitFunc, startErr, waitResult, runCalled, interruptCalled,
                   stopCh, bodyDone, path, trigger, checkSaw, atCall,
                   doneWrites, deliveredAt, invokerVars>>

\* start subscribing to the signals before it validates the Process
StartValidate_NotifyFirst ==
    /\ pc = "init"
    /\ notify' = notify + 1
    /\ sCtx' = IF ctxDone THEN "done" ELSE "open"
    /\ IF ~process.Run.isNil /\ ~process.Interrupt.isNil
       THEN /\ pc' = "validated"
            /\ UNCHANGED <<waitFunc, startErr>>
       ELSE /\ pc' = "rejected"
            /\ waitFunc' = "nil"
            /\ startErr' = NewCode(ErrInvalidProcess)
    /\ UNCHANGED <<process, ctxDone, sigCount, done, runPc, runErr,
                   err, waitResult, runCalled, interruptCalled, stopCh,
                   bodyDone, path, trigger, checkSaw, atCall,
                   runnable, doneWrites, deliveredAt, invokerVars>>

\* if !process.Valid() { return nil, errors.NewCode(ErrInvalidProcess) }
StartValidate ==
    /\ pc = "init"
    /\ IF Valid(process)
       THEN /\ pc' = "validated"
            /\ UNCHANGED <<waitFunc, startErr>>
       ELSE /\ pc' = "rejected"
            /\ waitFunc' = "nil"
            /\ startErr' = NewCode(ErrInvalidProcess)
    /\ UNCHANGED <<process, ctxDone, sigCount, sCtx, notify, done, runPc, runErr,
                   err, waitResult, runCalled, interruptCalled, stopCh,
                   bodyDone, path, trigger, checkSaw, atCall,
                   runnable, doneWrites, deliveredAt, invokerVars>>

\* the goroutine launched before the signals are subscribed to
StartNotify_LaunchFirst ==
    /\ pc = "validated"
    /\ pc' = "subscribed"
    /\ done' = << >>
    /\ runPc' = "spawned"
    /\ UNCHANGED <<process, ctxDone, sigCount, sCtx, notify, runErr, err,
                   waitFunc, startErr, waitResult, runCalled, interruptCalled,
                   stopCh, bodyDone, path, trigger, checkSaw, atCall,
                   runnable, doneWrites, deliveredAt, invokerVars>>

\* sCtx, stop := signal.NotifyContext(ctx, defaultSignals...)
StartNotify ==
    /\ pc = "validated"
    /\ pc' = "subscribed"
    /\ notify' = notify + 1
    /\ sCtx' = IF ctxDone THEN "done" ELSE "open"
    /\ trigger' = IF ctxDone /\ trigger = "none" THEN "ctx" ELSE trigger
    /\ UNCHANGED <<process, ctxDone, sigCount, done, runPc, runErr, err,
                   waitFunc, startErr, waitResult, runCalled, interruptCalled,
                   stopCh, bodyDone, path, checkSaw, atCall,
                   runnable, doneWrites, deliveredAt, invokerVars>>

\* start making the channel without launching the goroutine
StartGo_NoLaunch ==
    /\ pc = "subscribed"
    /\ pc' = "launched"
    /\ done' = << >>
    /\ UNCHANGED <<process, ctxDone, sigCount, sCtx, notify, runPc, runErr, err,
                   waitFunc, startErr, waitResult, runCalled, interruptCalled,
                   stopCh, bodyDone, path, trigger, checkSaw, atCall,
                   runnable, doneWrites, deliveredAt, invokerVars>>

\* done := make(chan error, 1); go func() { ... }()
StartGo ==
    /\ pc = "subscribed"
    /\ pc' = "launched"
    /\ done' = << >>
    /\ runPc' = "spawned"
    /\ UNCHANGED <<process, ctxDone, sigCount, sCtx, notify, runErr, err,
                   waitFunc, startErr, waitResult, runCalled, interruptCalled,
                   stopCh, bodyDone, path, trigger, checkSaw, atCall,
                   runnable, doneWrites, deliveredAt, invokerVars>>

\* start returning only once the goroutine has delivered the result of Run
StartReturn_AfterRun ==
    /\ pc = "launched"
    /\ runPc = "finished"
    /\ pc' = "started"
    /\ waitFunc' = "func"
    /\ startErr' = NoError
    /\ UNCHANGED <<process, ctxDone, sigCount, sCtx, notify, done, runPc, runErr,
                   err, waitResult, runCalled, interruptCalled, stopCh,
                   bodyDone, path, trigger, checkSaw, atCall,
                   runnable, doneWrites, deliveredAt, invokerVars>>

\* return waitFunc, nil
StartReturn ==
    /\ pc = "launched"
    /\ pc' = "started"
    /\ waitFunc' = "func"
    /\ startErr' = NoError
    /\ UNCHANGED <<process, ctxDone, sigCount, sCtx, notify, done, runPc, runErr,
                   err, waitResult, runCalled, interruptCalled, stopCh,
                   bodyDone, path, trigger, checkSaw, atCall,
                   runnable, doneWrites, deliveredAt, invokerVars>>

(***************************************************************************)
(* The goroutine: err := SafeRunSync(process.Run); done <- err             *)
(***************************************************************************)
\* SafeRunSync invokes proc
RunBegin ==
    /\ runPc = "spawned"
    /\ runPc' = "running"
    /\ runCalled' = runCalled + 1
    /\ UNCHANGED <<process, ctxDone, sigCount, sCtx, notify, done, pc, runErr,
                   err, waitFunc, startErr, waitResult, interruptCalled,
                   stopCh, bodyDone, path, trigger, checkSaw, atCall,
                   runnable, doneWrites, deliveredAt, invokerVars>>

\* the Run body returns or panics, SafeRunSync returns err
RunEnd ==
    /\ runPc = "running"
    /\ \/ process.Run.blocks = "no" /\ UNCHANGED stopCh
       \/ process.Run.blocks = "untilStop" /\ stopCh > 0 /\ stopCh' = stopCh - 1
    /\ runPc' = "returned"
    /\ runErr' = SafeRunSync(process.Run)
    /\ bodyDone' = TRUE
    /\ trigger' = IF trigger = "none" THEN "run" ELSE trigger
    /\ UNCHANGED <<process, ctxDone, sigCount, sCtx, notify, done, pc, err,
                   waitFunc, startErr, waitResult, runCalled, interruptCalled,
                   path, checkSaw, atCall,
                   runnable, doneWrites, deliveredAt, invokerVars>>

\* the goroutine calling stop() once it has delivered the result of Run
RunDeliver_ReleasesSubscription ==
    /\ runPc = "returned"
    /\ Len(done) < 1
    /\ done' = Append(done, runErr)
    /\ runPc' = "finished"
    /\ doneWrites' = doneWrites + 1
    /\ deliveredAt' = pc
    /\ notify' = 0
    /\ sCtx' = "done"
    /\ UNCHANGED <<process, ctxDone, sigCount, pc, runErr, err,
                   waitFunc, startErr, waitResult, runCalled, interruptCalled,
                   stopCh, bodyDone, path, trigger, checkSaw, atCall,
                   runnable, invokerVars>>

\* done made without a buffer: the send completes only with wait receiving
RunDeliver_Unbuffered ==
    /\ runPc = "returned"
    /\ pc \in {"select", "check"}
    /\ Len(done) < 1
    /\ done' = Append(done, runErr)
    /\ runPc' = "finished"
    /\ doneWrites' = doneWrites + 1
    /\ deliveredAt' = pc
    /\ UNCHANGED <<process, ctxDone, sigCount, sCtx, notify, pc, runErr, err,
                   waitFunc, startErr, waitResult, runCalled, interruptCalled,
                   stopCh, bodyDone, path, trigger, checkSaw, atCall,
                   runnable, invokerVars>>

\* a completion of Run after wait returned replacing the outcome of wait
RunDeliver_UpdatesOutcome ==
    /\ runPc = "returned"
    /\ Len(done) < 1
    /\ done' = Append(done, runErr)
    /\ runPc' = "finished"
    /\ doneWrites' = doneWrites + 1
    /\ deliveredAt' = pc
    /\ waitResult' = IF pc = "done" /\ ~runErr.isNil THEN runErr ELSE waitResult
    /\ UNCHANGED <<process, ctxDone, sigCount, sCtx, notify, pc, runErr, err,
                   waitFunc, startErr, runCalled, interruptCalled,
                   stopCh, bodyDone, path, trigger, checkSaw, atCall,
                   runnable, invokerVars>>

\* done <- err
RunDeliver ==
    /\ runPc = "returned"
    /\ Len(done) < 1
    /\ done' = Append(done, runErr)
    /\ runPc' = "finished"
    /\ doneWrites' = doneWrites + 1
    /\ deliveredAt' = pc
    /\ UNCHANGED <<process, ctxDone, sigCount, sCtx, notify, pc, runErr, err,
                   waitFunc, startErr, waitResult, runCalled, interruptCalled,
                   stopCh, bodyDone, path, trigger, checkSaw, atCall,
                   runnable, invokerVars>>

(***************************************************************************)
(* waitFunc                                                                *)
(***************************************************************************)
\* wait without its first select: it goes to the check of done at once
WaitCall_SkipsFirstSelect ==
    /\ pc = "started"
    /\ pc' = "check"
    /\ err' = NoError
    /\ atCall' = IF sCtx = "done"
                 THEN (IF Len(done) > 0 THEN "both" ELSE "ctx")
                 ELSE (IF Len(done) > 0 THEN "run" ELSE "none")
    /\ UNCHANGED <<process, ctxDone, sigCount, sCtx, notify, done, runPc, runErr,
                   waitFunc, startErr, waitResult, runCalled, interruptCalled,
                   stopCh, bodyDone, path, trigger, checkSaw,
                   runnable, doneWrites, deliveredAt, invokerVars>>

\* the caller invokes the wait function
WaitCall ==
    /\ pc = "started"
    /\ pc' = "select"
    /\ err' = NoError
    /\ atCall' = IF sCtx = "done"
                 THEN (IF Len(done) > 0 THEN "both" ELSE "ctx")
                 ELSE (IF Len(done) > 0 THEN "run" ELSE "none")
    /\ UNCHANGED <<process, ctxDone, sigCount, sCtx, notify, done, runPc, runErr,
                   waitFunc, startErr, waitResult, runCalled, interruptCalled,
                   stopCh, bodyDone, path, trigger, checkSaw,
                   runnable, doneWrites, deliveredAt, invokerVars>>

\* the ctx branch taking the error of sCtx instead of invoking Interrupt
WaitSelectCtx_SkipsInterrupt ==
    /\ pc = "select"
    /\ sCtx = "done"
    /\ pc' = "check"
    /\ path' = "interrupt"
    /\ err' = Errorf("context canceled")
    /\ UNCHANGED <<process, ctxDone, sigCount, sCtx, notify, done, runPc, runErr,
                   waitFunc, startErr, waitResult, runCalled, interruptCalled,
                   stopCh, bodyDone, trigger, checkSaw, atCall,
                   runnable, doneWrites, deliveredAt, invokerVars>>

\* case <-sCtx.Done(): process.Interrupt() is invoked
WaitSelectCtx ==
    /\ pc = "select"
    /\ sCtx = "done"
    /\ pc' = "interrupting"
    /\ path' = "interrupt"
    /\ interruptCalled' = interruptCalled + 1
    /\ stopCh' = IF process.Interrupt.sendsStop THEN stopCh + 1 ELSE stopCh
    /\ UNCHANGED <<process, ctxDone, sigCount, sCtx, notify, done, runPc, runErr,
                   err, waitFunc, startErr, waitResult, runCalled, bodyDone,
                   trigger, checkSaw, atCall,
                   runnable, doneWrites, deliveredAt, invokerVars>>

\* wait calling Interrupt without keeping the error it returns
InterruptReturn_DropsError ==
    /\ pc = "interrupting"
    /\ process.Interrupt.ends = "return"
    /\ process.Interrupt.waitsDone => bodyDone
    /\ err' = NoError
    /\ pc' = "check"
    /\ UNCHANGED <<process, ctxDone, sigCount, sCtx, notify, done, runPc, runErr,
                   waitFunc, startErr, waitResult, runCalled, interruptCalled,
                   stopCh, bodyDone, path, trigger, checkSaw, atCall,
                   runnable, doneWrites, deliveredAt, invokerVars>>

\* wait invoking Interrupt again when it returned an error
InterruptReturn_RetriesOnError ==
    /\ pc = "interrupting"
    /\ process.Interrupt.ends = "return"
    /\ process.Interrupt.waitsDone => bodyDone
    /\ err' = process.Interrupt.ret
    /\ pc' = IF ~process.Interrupt.ret.isNil /\ interruptCalled < 2
             THEN "select" ELSE "check"
    /\ UNCHANGED <<process, ctxDone, sigCount, sCtx, notify, done, runPc, runErr,
                   waitFunc, startErr, waitResult, runCalled, interruptCalled,
                   stopCh, bodyDone, path, trigger, checkSaw, atCall,
                   runnable, doneWrites, deliveredAt, invokerVars>>

\* err = process.Interrupt(): Interrupt returns
InterruptReturn ==
    /\ pc = "interrupting"
    /\ process.Interrupt.ends = "return"
    /\ process.Interrupt.waitsDone => bodyDone
    /\ err' = process.Interrupt.ret
    /\ pc' = "check"
    /\ UNCHANGED <<process, ctxDone, sigCount, sCtx, notify, done, runPc, runErr,
                   waitFunc, startErr, waitResult, runCalled, interruptCalled,
                   stopCh, bodyDone, path, trigger, checkSaw, atCall,
                   runnable, doneWrites, deliveredAt, invokerVars>>

\* Interrupt wrapped in a recover: its panic becomes the error of wait
InterruptPanic_Recovered ==
    /\ pc = "interrupting"
    /\ process.Interrupt.ends = "panic"
    /\ process.Interrupt.waitsDone => bodyDone
    /\ err' = New("interrupt panic")
    /\ pc' = "check"
    /\ UNCHANGED <<process, ctxDone, sigCount, sCtx, notify, done, runPc, runErr,
                   waitFunc, startErr, waitResult, runCalled, interruptCalled,
                   stopCh, bodyDone, path, trigger, checkSaw, atCall,
                   runnable, doneWrites, deliveredAt, invokerVars>>

\* stop() called at the end of wait instead of deferred: a panic of Interrupt
\* leaves wait without it
InterruptPanic_StopNotDeferred ==
    /\ pc = "interrupting"
    /\ process.Interrupt.ends = "panic"
    /\ process.Interrupt.waitsDone => bodyDone
    /\ pc' = "panicked"
    /\ UNCHANGED <<process, ctxDone, sigCount, sCtx, notify, done, runPc, runErr,
                   err, waitFunc, startErr, waitResult, runCalled,
                   interruptCalled, stopCh, bodyDone, path, trigger, checkSaw,
                   atCall,
                   runnable, doneWrites, deliveredAt, invokerVars>>

\* process.Interrupt() panics: the deferred stop() runs, the panic leaves wait
InterruptPanic ==
    /\ pc = "interrupting"
    /\ process.Interrupt.ends = "panic"
    /\ process.Interrupt.waitsDone => bodyDone
    /\ pc' = "panicked"
    /\ notify' = notify - 1
    /\ sCtx' = "done"
    /\ UNCHANGED <<process, ctxDone, sigCount, done, runPc, runErr, err,
                   waitFunc, startErr, waitResult, runCalled, interruptCalled,
                   stopCh, bodyDone, path, trigger, checkSaw, atCall,
                   runnable, doneWrites, deliveredAt, invokerVars>>

\* the done branch calling Interrupt as well, to stop an already finished Run
WaitSelectDone_AlsoInterrupts ==
    /\ pc = "select"
    /\ Len(done) > 0
    /\ err' = Head(done)
    /\ done' = Tail(done)
    /\ path' = "run"
    /\ interruptCalled' = interruptCalled + 1
    /\ pc' = "check"
    /\ UNCHANGED <<process, ctxDone, sigCount, sCtx, notify, runPc, runErr,
                   waitFunc, startErr, waitResult, runCalled,
                   stopCh, bodyDone, trigger, checkSaw, atCall,
                   runnable, doneWrites, deliveredAt, invokerVars>>

\* the first select with a default case: it does not wait for a value
WaitSelectDone_Default ==
    /\ pc = "select"
    /\ err' = IF Len(done) > 0 THEN Head(done) ELSE NoError
    /\ done' = IF Len(done) > 0 THEN Tail(done) ELSE done
    /\ path' = "run"
    /\ pc' = "check"
    /\ UNCHANGED <<process, ctxDone, sigCount, sCtx, notify, runPc, runErr,
                   waitFunc, startErr, waitResult, runCalled, interruptCalled,
                   stopCh, bodyDone, trigger, checkSaw, atCall,
                   runnable, doneWrites, deliveredAt, invokerVars>>

\* case err = <-done:
WaitSelectDone ==
    /\ pc = "select"
    /\ Len(done) > 0
    /\ err' = Head(done)
    /\ done' = Tail(done)
    /\ path' = "run"
    /\ pc' = "check"
    /\ UNCHANGED <<process, ctxDone, sigCount, sCtx, notify, runPc, runErr,
                   waitFunc, startErr, waitResult, runCalled, interruptCalled,
                   stopCh, bodyDone, trigger, checkSaw, atCall,
                   runnable, doneWrites, deliveredAt, invokerVars>>

\* the second select without the test runErr != nil: a nil result of Run
\* replaces the error of Interrupt
Override_AnyValue(e, ch) ==
    IF Len(ch) > 0 THEN Head(ch) ELSE e

\* wait without its second select: the value of Interrupt is kept
Override_None(e, ch) ==
    e

\* the value of err after the second, non-blocking select
Override(e, ch) ==
    IF Len(ch) > 0 /\ ~Head(ch).isNil THEN Head(ch) ELSE e

\* the second select without its default case: wait blocks for the result of Run
WaitCheck_Blocking ==
    /\ pc = "check"
    /\ Len(done) > 0
    /\ checkSaw' = "value"
    /\ err' = Override(err, done)
    /\ done' = Tail(done)
    /\ waitResult' = err'
    /\ notify' = notify - 1
    /\ sCtx' = "done"
    /\ pc' = "done"
    /\ UNCHANGED <<process, ctxDone, sigCount, runPc, runErr, waitFunc, startErr,
                   runCalled, interruptCalled, stopCh, bodyDone, path, trigger, atCall,
                   runnable, doneWrites, deliveredAt, invokerVars>>

\* select { case runErr, ok := <-done: ... default: }; return err; defer stop()
WaitCheck ==
    /\ pc = "check"
    /\ checkSaw' = IF Len(done) > 0 THEN "value" ELSE "empty"
    /\ err' = Override(err, done)
    /\ done' = IF Len(done) > 0 THEN Tail(done) ELSE done
    /\ waitResult' = err'
    /\ notify' = notify - 1
    /\ sCtx' = "done"
    /\ pc' = "done"
    /\ UNCHANGED <<process, ctxDone, sigCount, runPc, runErr, waitFunc, startErr,
                   runCalled, interruptCalled, stopCh, bodyDone, path, trigger, atCall,
                   runnable, doneWrites, deliveredAt, invokerVars>>

(***************************************************************************)
(* Specification                                                           *)
(***************************************************************************)
Start == StartWithSignalHandler \/ StartValidate \/ StartNotify \/ StartGo
            \/ StartReturn

Goroutine == RunBegin \/ RunEnd \/ RunDeliver

Wait == WaitCall \/ WaitSelectCtx \/ InterruptReturn \/ InterruptPanic
           \/ WaitSelectDone \/ WaitCheck

Next ==
    \/ CancelCtx
    \/ DeliverSignal
    \/ StartWithSignalHandler
    \/ StartValidate
    \/ StartNotify
    \/ StartGo
    \/ StartReturn
    \/ RunBegin
    \/ RunEnd
    \/ RunDeliver
    \/ WaitCall
    \/ WaitSelectCtx
    \/ InterruptReturn
    \/ InterruptPanic
    \/ WaitSelectDone
    \/ WaitCheck

Spec == Init /\ [][Next]_vars

\* the caller's flow of control is scheduled while it is inside start; nothing
\* is assumed of the goroutine, of wait or of the environment
StartFairSpec == Init /\ [][Next]_vars /\ WF_vars(Start)

\* the Go scheduler runs every runnable goroutine, and the caller calls wait
FairSpec ==
    Init /\ [][Next]_vars /\ WF_vars(Start) /\ WF_vars(Goroutine) /\ WF_vars(Wait)

\* only the goroutine is scheduled: the caller may never call wait
GoroutineFairSpec == Init /\ [][Next]_vars /\ WF_vars(Goroutine)

TypeOK ==
    /\ process \in Processes
    /\ ctxDone \in BOOLEAN
    /\ sigCount \in 0..(MaxSignals + 1)
    /\ sCtx \in {"none", "open", "done"}
    /\ notify \in 0..1
    /\ Len(done) <= 1
    /\ pc \in {"init", "rejected", "validated", "subscribed", "launched",
               "started", "select", "interrupting", "check", "done", "panicked"}
    /\ runPc \in {"none", "spawned", "running", "returned", "finished"}
    /\ waitFunc \in {"unset", "nil", "func"}
    /\ path \in {"none", "interrupt", "run"}

(***************************************************************************)
(* SafeRunSync and SafeRunAsync called on their own, on the same action     *)
(***************************************************************************)
\* the actions handed to SafeRunSync and SafeRunAsync
InvokerProcs ==
    {r \in RunFuncs : r.blocks # "untilStop"} \cup {RunReturning("no", errSample)}

\* the value the deferred recover of SafeRunAsync leaves in err
SafeRunAsyncErr(f) ==
    IF f.ends = "panic"
    THEN IF f.payload.isError
         THEN f.payload.err
         ELSE New(Sprintf(f.payload.val))
    ELSE f.ret

\* SafeRunSync(proc) is called: the inner function invokes proc
SyncCall ==
    /\ syncPc = "idle"
    /\ syncPc' = "running"
    /\ syncCalled' = syncCalled + 1
    /\ UNCHANGED <<lifecycleVars, proc, syncErr, asyncPc, goPc, goErr, out,
                   outWrites, recv, asyncCalled>>

\* proc ends, the deferred recover runs, SafeRunSync returns err
SyncEnd ==
    /\ syncPc = "running"
    /\ proc.blocks = "no"
    /\ syncErr' = SafeRunSync(proc)
    /\ syncPc' = "returned"
    /\ UNCHANGED <<lifecycleVars, proc, syncCalled, asyncPc, goPc, goErr, out,
                   outWrites, recv, asyncCalled>>

\* SafeRunAsync(proc): out := make(chan error, 1); go func() { ... }()
AsyncGo ==
    /\ asyncPc = "idle"
    /\ out' = << >>
    /\ goPc' = "spawned"
    /\ asyncPc' = "launched"
    /\ UNCHANGED <<lifecycleVars, proc, syncPc, syncErr, syncCalled, goErr,
                   outWrites, recv, asyncCalled>>

\* return out
AsyncReturn ==
    /\ asyncPc = "launched"
    /\ asyncPc' = "returned"
    /\ UNCHANGED <<lifecycleVars, proc, syncPc, syncErr, syncCalled, goPc, goErr,
                   out, outWrites, recv, asyncCalled>>

\* the goroutine is scheduled and invokes proc
GoBegin ==
    /\ goPc = "spawned"
    /\ goPc' = "running"
    /\ asyncCalled' = asyncCalled + 1
    /\ UNCHANGED <<lifecycleVars, proc, syncPc, syncErr, syncCalled, asyncPc,
                   goErr, out, outWrites, recv>>

\* err = proc(), or proc panics and the deferred recover sets err
GoEnd ==
    /\ goPc = "running"
    /\ proc.blocks = "no"
    /\ goErr' = SafeRunAsyncErr(proc)
    /\ goPc' = "ended"
    /\ UNCHANGED <<lifecycleVars, proc, syncPc, syncErr, syncCalled, asyncPc,
                   out, outWrites, recv, asyncCalled>>

\* the deferred send skipped when proc panicked
GoSend_OnlyOnReturn ==
    /\ goPc = "ended"
    /\ Len(out) < 1
    /\ out' = IF proc.ends = "panic" THEN out ELSE Append(out, goErr)
    /\ outWrites' = IF proc.ends = "panic" THEN outWrites ELSE outWrites + 1
    /\ goPc' = "sent"
    /\ UNCHANGED <<lifecycleVars, proc, syncPc, syncErr, syncCalled, asyncPc,
                   goErr, recv, asyncCalled>>

\* defer func() { out <- err }()
GoSend ==
    /\ goPc = "ended"
    /\ Len(out) < 1
    /\ out' = Append(out, goErr)
    /\ outWrites' = outWrites + 1
    /\ goPc' = "sent"
    /\ UNCHANGED <<lifecycleVars, proc, syncPc, syncErr, syncCalled, asyncPc,
                   goErr, recv, asyncCalled>>

\* the caller receives from the channel SafeRunAsync returned
Receive ==
    /\ asyncPc = "returned"
    /\ Len(out) > 0
    /\ recv' = Head(out)
    /\ out' = Tail(out)
    /\ asyncPc' = "received"
    /\ UNCHANGED <<lifecycleVars, proc, syncPc, syncErr, syncCalled, goPc, goErr,
                   outWrites, asyncCalled>>

\* no lifecycle is started; an action is chosen for the two invokers
InvokerInit ==
    /\ process = [Run |-> NilRunFunc, Interrupt |-> NilInterruptFunc]
    /\ ctxDone = FALSE
    /\ LifecycleIdle
    /\ proc \in InvokerProcs
    /\ InvokerIdle

SyncCaller == SyncCall \/ SyncEnd

AsyncCaller == AsyncGo \/ AsyncReturn \/ Receive

AsyncGoroutine == GoBegin \/ GoEnd \/ GoSend

InvokerNext ==
    \/ SyncCall
    \/ SyncEnd
    \/ AsyncGo
    \/ AsyncReturn
    \/ GoBegin
    \/ GoEnd
    \/ GoSend
    \/ Receive

SafeInvokerSpec == InvokerInit /\ [][InvokerNext]_vars

\* the callers keep running and the Go scheduler runs the goroutine
SafeInvokerFairSpec ==
    /\ InvokerInit
    /\ [][InvokerNext]_vars
    /\ WF_vars(SyncCaller)
    /\ WF_vars(AsyncCaller)
    /\ WF_vars(AsyncGoroutine)

InvokerTypeOK ==
    /\ proc \in InvokerProcs \cup {NilRunFunc}
    /\ syncPc \in {"idle", "running", "returned"}
    /\ asyncPc \in {"idle", "launched", "returned", "received"}
    /\ goPc \in {"none", "spawned", "running", "ended", "sent"}
    /\ Len(out) <= 1
    /\ syncCalled \in 0..1
    /\ asyncCalled \in 0..1
    /\ outWrites \in 0..1

(***************************************************************************)
(* Vocabulary of the properties                                            *)
(***************************************************************************)
\* an interruption occurred: ctx was cancelled or SIGINT was delivered
Interrupted == ctxDone \/ sigCount > 0

\* start has returned control to its caller
StartReturned == pc \notin {"init", "validated", "subscribed", "launched"}

\* wait has returned control to its caller, normally or by a panic
WaitExited == pc \in {"done", "panicked"}

\* the result Run completes with: the error it returns, or the error its
\* panic is converted to
RunCompletion(f) ==
    IF f.ends = "return" THEN f.ret
    ELSE IF f.payload.isError THEN f.payload.err
    ELSE New(CASE f.payload.val = 2 -> "2" [] f.payload.val = 42 -> "42")

(***************************************************************************)
(* C1  If ctx is never cancelled and no signal is delivered, and Run        *)
(*     returns E on its own, wait returns exactly E and Interrupt is never  *)
(*     invoked.                                                             *)
(***************************************************************************)
C1_RunResultReturned ==
    (pc = "done" /\ ~Interrupted /\ process.Run.ends = "return")
        => (waitResult = process.Run.ret /\ interruptCalled = 0)

(***************************************************************************)
(* C2  If ctx is cancelled before Run completes, wait (on the interrupt     *)
(*     path) returns the value of Interrupt, unless Run has completed with  *)
(*     a non-nil error and delivered it before the override check, in       *)
(*     which case wait returns the Run error.                               *)
(***************************************************************************)
C2_InterruptValueUnlessRunError ==
    (pc = "done" /\ trigger = "ctx" /\ path = "interrupt")
        => waitResult =
              IF checkSaw = "value" /\ ~RunCompletion(process.Run).isNil
              THEN RunCompletion(process.Run)
              ELSE process.Interrupt.ret

(***************************************************************************)
(* C3  Run blocks until stopped; Interrupt unblocks it and returns only     *)
(*     after the Run body has returned a non-nil error R: wait returns R    *)
(*     whatever Interrupt returned.                                         *)
(***************************************************************************)
C3_Case ==
    /\ process.Run.blocks = "untilStop"
    /\ process.Run.ends = "return"
    /\ ~process.Run.ret.isNil
    /\ process.Interrupt.sendsStop
    /\ process.Interrupt.waitsDone
    /\ process.Interrupt.ends = "return"

C3_RunErrorWins ==
    (pc = "done" /\ C3_Case /\ Interrupted) => waitResult = process.Run.ret

(***************************************************************************)
(* C4  For a Process whose Run is nil, whose Interrupt is nil, or both,     *)
(*     start returns a nil wait function and an error with the code         *)
(*     ErrInvalidProcess.                                                   *)
(***************************************************************************)
C4_InvalidProcessRejected ==
    (pc # "init" /\ (process.Run.isNil \/ process.Interrupt.isNil))
        => /\ pc = "rejected"
           /\ waitFunc = "nil"
           /\ ~startErr.isNil
           /\ startErr.code = "ErrInvalidProcess"

C4_Witness ==
    pc = "rejected" /\ ~process.Run.isNil /\ process.Interrupt.isNil

(***************************************************************************)
(* C5  A rejected start does nothing else: no goroutine, no invocation of   *)
(*     Run or Interrupt, no signal subscription.                            *)
(***************************************************************************)
C5_RejectedDoesNothing ==
    pc = "rejected"
        => /\ runPc = "none"
           /\ runCalled = 0
           /\ interruptCalled = 0
           /\ notify = 0
           /\ sCtx = "none"
           /\ done = << >>

C5_Witness ==
    pc = "rejected" /\ process.Run.isNil /\ ctxDone

(***************************************************************************)
(* C6  If Run panics and no interruption occurs, the goroutine survives    *)
(*     and wait eventually returns an error: the payload itself when it is  *)
(*     an error, else an error whose message is the payload's text.         *)
(***************************************************************************)
C6_Result ==
    (pc = "done" /\ ~Interrupted /\ process.Run.ends = "panic")
        => /\ ~waitResult.isNil
           /\ process.Run.payload.isError => waitResult = process.Run.payload.err
           /\ (~process.Run.payload.isError /\ process.Run.payload.val = 2)
                 => (waitResult.msg = "2" /\ waitResult.impl = "errors")
           /\ (~process.Run.payload.isError /\ process.Run.payload.val = 42)
                 => (waitResult.msg = "42" /\ waitResult.impl = "errors")

C6_Contained ==
    (process.Run.ends = "panic" /\ bodyDone)
        => (runPc \in {"returned", "finished"} /\ ~runErr.isNil)

C6_PanicBecomesError ==
    /\ [](C6_Result /\ C6_Contained)
    /\ (pc = "select" /\ process.Run.ends = "panic" /\ process.Run.blocks = "no")
          ~> ((pc = "done" /\ ~waitResult.isNil) \/ Interrupted)

C6_Witness ==
    /\ pc = "done"
    /\ ~Interrupted
    /\ process.Run.ends = "panic"
    /\ process.Run.payload = PanicInt(2)
    /\ waitResult.msg = "2"

(***************************************************************************)
(* C7  Run blocks until a local stop signal, Interrupt sends it and         *)
(*     returns no error.  As stated: once the interruption has fired and    *)
(*     wait has returned, wait returned no error and Interrupt and Run      *)
(*     have each been invoked exactly once.                                 *)
(***************************************************************************)
C7_Case ==
    /\ process.Run.blocks = "untilStop"
    /\ process.Run.ends = "return"
    /\ process.Run.ret.isNil
    /\ process.Interrupt.sendsStop
    /\ process.Interrupt.ends = "return"
    /\ process.Interrupt.ret.isNil

C7_RunInvokedExactlyOnce ==
    (pc = "done" /\ C7_Case /\ Interrupted)
        => (waitResult.isNil /\ interruptCalled = 1 /\ runCalled = 1)

(***************************************************************************)
(* C7  as amended: in that case wait returns once the interruption has      *)
(*     fired; it returns no error, Interrupt has been invoked exactly       *)
(*     once, Run at most once, and exactly once when Interrupt returns      *)
(*     only after the Run body has returned.                                *)
(***************************************************************************)
C7_AtReturn ==
    (pc = "done" /\ C7_Case /\ Interrupted)
        => /\ waitResult.isNil
           /\ interruptCalled = 1
           /\ runCalled <= 1
           /\ process.Interrupt.waitsDone => runCalled = 1

C7_InterruptedStops ==
    /\ []C7_AtReturn
    /\ (pc = "select" /\ C7_Case /\ Interrupted) ~> (pc = "done")

C7_Witness ==
    /\ pc = "done"
    /\ C7_Case
    /\ sigCount > 0
    /\ ~ctxDone
    /\ process.Interrupt.waitsDone
    /\ runCalled = 1
    /\ interruptCalled = 1

(***************************************************************************)
(* C8  On every exit path of wait (run path, interrupt path, panic of       *)
(*     Interrupt) the signal subscription of the lifecycle has been         *)
(*     released when wait hands control back.                               *)
(***************************************************************************)
C8_SubscriptionReleased ==
    WaitExited => (notify = 0 /\ sCtx = "done")

C8_Witness ==
    pc = "panicked" /\ notify = 0 /\ interruptCalled = 1

(***************************************************************************)
(* C9  start never blocks: each of its steps is enabled whatever the        *)
(*     goroutine does, and with the caller scheduled it returns the wait    *)
(*     function although Run has not started, progressed or returned.       *)
(***************************************************************************)
C9_StepsEnabled ==
    /\ pc = "init" => ENABLED StartValidate
    /\ pc = "validated" => ENABLED StartNotify
    /\ pc = "subscribed" => ENABLED StartGo
    /\ pc = "launched" => ENABLED StartReturn
    /\ (StartReturned /\ pc # "rejected") => waitFunc = "func"

C9_StartNeverBlocks ==
    /\ []C9_StepsEnabled
    /\ (pc = "init") ~> StartReturned

C9_Witness ==
    /\ pc = "started"
    /\ waitFunc = "func"
    /\ process.Run.blocks = "forever"
    /\ runPc = "spawned"
    /\ runCalled = 0

(***************************************************************************)
(* C10 As stated: the value of wait is fixed by the results of Run and      *)
(*     Interrupt and by the order of the triggers: the trigger that fired   *)
(*     first decides (Run first: the result of Run; interruption first:     *)
(*     the value of Interrupt, replaced by a non-nil result of Run),        *)
(*     also when both have fired before wait is called.                     *)
(***************************************************************************)
C10_FirstTriggerDecides ==
    pc = "done"
        => waitResult =
              IF trigger = "run" THEN runErr
              ELSE IF (path = "run" \/ checkSaw = "value") /\ ~runErr.isNil
                   THEN runErr
              ELSE process.Interrupt.ret

(***************************************************************************)
(* C10 as amended: the value of wait is fixed by the results of Run and     *)
(*     Interrupt, the branch taken by the first select of wait and the      *)
(*     content of done at the second select.  When both triggers have       *)
(*     fired before wait is called the first select takes either branch.    *)
(***************************************************************************)
C10_BranchDecides ==
    pc = "done"
        => /\ path \in {"run", "interrupt"}
           /\ path = "run" => (waitResult = runErr /\ interruptCalled = 0)
           /\ path = "interrupt"
                 => waitResult =
                       IF checkSaw = "value" /\ ~runErr.isNil THEN runErr
                       ELSE process.Interrupt.ret

C10_Witness ==
    /\ pc = "done"
    /\ atCall = "both"
    /\ trigger = "run"
    /\ path = "interrupt"
    /\ runErr.isNil
    /\ waitResult = errInterrupt

\* the same case resolved on the other branch: wait returns nil
C10_OtherBranch ==
    /\ pc = "done"
    /\ atCall = "both"
    /\ trigger = "run"
    /\ path = "run"
    /\ process.Interrupt.ret = errInterrupt
    /\ waitResult.isNil

(***************************************************************************)
(* C11 No retries: in a lifecycle Run is invoked at most once and           *)
(*     Interrupt at most once, whatever they return or panic with and in    *)
(*     every interleaving of cancellation and completion.                   *)
(***************************************************************************)
C11_NoRetries ==
    /\ runCalled <= 1
    /\ interruptCalled <= 1
    /\ WaitExited => interruptCalled = (IF path = "interrupt" THEN 1 ELSE 0)

C11_Witness ==
    /\ pc = "done"
    /\ path = "interrupt"
    /\ process.Interrupt.ret = errInterrupt
    /\ process.Run.ends = "panic"
    /\ runPc = "finished"
    /\ runCalled = 1
    /\ interruptCalled = 1

(***************************************************************************)
(* C12 As stated: after a successful start, when wait has returned Run      *)
(*     has been invoked exactly once, on the run path and on the ctx-done   *)
(*     path alike.                                                          *)
(***************************************************************************)
C12_RunInvokedWhenWaitReturns ==
    pc = "done" => runCalled = 1

(***************************************************************************)
(* C12 as amended: when wait has returned Run has been invoked at most      *)
(*     once; exactly once when wait resolved through the completion of      *)
(*     Run, and on the ctx-done path when Interrupt returns only after      *)
(*     the Run body has returned.  Otherwise wait may return on the         *)
(*     ctx-done path before the goroutine has invoked Run.                  *)
(***************************************************************************)
C12_RunInvokedAtMostOnce ==
    pc = "done"
        => /\ runCalled <= 1
           /\ path = "run" => runCalled = 1
           /\ (path = "interrupt" /\ process.Interrupt.waitsDone) => runCalled = 1

C12_Witness ==
    /\ pc = "done"
    /\ path = "interrupt"
    /\ ctxDone
    /\ process.Interrupt.waitsDone
    /\ runCalled = 1

\* the case the amendment excludes: wait has returned, Run was never invoked
C12_ReturnedBeforeRun ==
    pc = "done" /\ path = "interrupt" /\ runCalled = 0 /\ runPc = "spawned"

(***************************************************************************)
(* C13 StartWithSignalHandler(ctx, runnable) is                             *)
(*     AsyncStartWithSignalHandler(ctx, Process{Run: runnable.Start,        *)
(*     Interrupt: runnable.Stop}): the lifecycle it starts works on that    *)
(*     Process, is never rejected, invokes Start as Run and Stop as         *)
(*     Interrupt, and resolves wait as the coordinator does.                *)
(***************************************************************************)
C13_RunnableIsLifted ==
    runnable.set
        => /\ process.Run = runnable.Start
           /\ process.Interrupt = runnable.Stop
           /\ pc # "rejected"
           /\ stopCh > 0 => (runnable.Stop.sendsStop /\ interruptCalled = 1)
           /\ (pc = "done" /\ path = "interrupt" /\ checkSaw = "empty")
                 => waitResult = runnable.Stop.ret

C13_Witness ==
    /\ runnable.set
    /\ pc = "done"
    /\ path = "interrupt"
    /\ checkSaw = "empty"
    /\ runnable.Stop.ret = errInterrupt
    /\ waitResult = errInterrupt
    /\ runCalled = 1

(***************************************************************************)
(* C14 A panic of Interrupt is not contained: on the interrupt path it      *)
(*     leaves wait as a panic and wait returns no value; a panic of Run     *)
(*     is recovered in the goroutine and reaches no caller.                 *)
(***************************************************************************)
C14_InterruptPanicEscapes ==
    /\ pc = "panicked"
          => (path = "interrupt" /\ process.Interrupt.ends = "panic"
              /\ interruptCalled = 1)
    /\ (pc \in {"check", "done"} /\ path = "interrupt")
          => process.Interrupt.ends = "return"
    /\ (process.Run.ends = "panic" /\ bodyDone /\ path # "interrupt")
          => (pc # "panicked" /\ runPc \in {"returned", "finished"})

C14_Witness ==
    /\ pc = "panicked"
    /\ process.Interrupt.ends = "panic"
    /\ process.Run.ends = "panic"
    /\ runPc = "finished"

(***************************************************************************)
(* C19 The signal-aware context is created before the goroutine of Run is   *)
(*     launched: whenever the goroutine exists the subscription has been    *)
(*     made, so an interruption that occurs once Run may execute closes     *)
(*     sCtx, and a wait blocked in its first select can take the            *)
(*     interrupt branch.                                                    *)
(***************************************************************************)
C19_SubscribedBeforeLaunch ==
    /\ runPc # "none" => sCtx # "none"
    /\ (runPc # "none" /\ Interrupted) => sCtx = "done"
    /\ (runPc # "none" /\ pc = "select" /\ Interrupted) => ENABLED WaitSelectCtx

C19_Witness ==
    /\ runPc = "running"
    /\ runCalled = 1
    /\ pc = "select"
    /\ sigCount = 1
    /\ ~ctxDone
    /\ sCtx = "done"
    /\ trigger = "ctx"

(***************************************************************************)
(* C20 As stated: done has capacity one and is written exactly once by the  *)
(*     goroutine of Run, and a run error written after wait chose the       *)
(*     interrupt branch is the value wait returns.                          *)
(***************************************************************************)
C20_LateWriteCaptured ==
    /\ Len(done) <= 1
    /\ doneWrites <= 1
    /\ runPc = "finished" => doneWrites = 1
    /\ (pc = "done" /\ path = "interrupt" /\ ~runErr.isNil
        /\ deliveredAt \in {"interrupting", "check", "done"})
          => waitResult = runErr

(***************************************************************************)
(* C20 as amended: done has capacity one and is written at most once, and   *)
(*     exactly once when the goroutine of Run has finished; a run error     *)
(*     written after wait chose the interrupt branch is the value wait      *)
(*     returns when it was written before wait executed its second          *)
(*     select.  A write after the second select is not seen by wait.        *)
(***************************************************************************)
C20_ReadyWriteCaptured ==
    /\ Len(done) <= 1
    /\ doneWrites <= 1
    /\ runPc = "finished" => doneWrites = 1
    /\ (pc = "done" /\ path = "interrupt" /\ ~runErr.isNil
        /\ deliveredAt \in {"interrupting", "check"})
          => (waitResult = runErr /\ checkSaw = "value")

C20_Witness ==
    /\ pc = "done"
    /\ path = "interrupt"
    /\ deliveredAt = "check"
    /\ doneWrites = 1
    /\ ~runErr.isNil
    /\ process.Interrupt.ret = errInterrupt
    /\ waitResult = runErr

\* the case the amendment excludes: the error is written after wait returned
C20_WrittenAfterCheck ==
    /\ pc = "done"
    /\ path = "interrupt"
    /\ deliveredAt = "done"
    /\ ~runErr.isNil
    /\ Len(done) = 1
    /\ waitResult # runErr

(***************************************************************************)
(* C15 SafeRunSync invokes its action exactly once, in the caller's flow    *)
(*     of control, and when the action does not panic it returns exactly    *)
(*     the value the action returned.                                       *)
(***************************************************************************)
C15_SyncReturnsActionResult ==
    (syncPc = "returned" /\ proc.ends = "return")
        => (syncCalled = 1 /\ syncErr = proc.ret)

(***************************************************************************)
(* C16 SafeRunSync contains every panic of its action: it returns, and      *)
(*     the error it returns is not nil; it is the payload itself when the   *)
(*     payload is an error, and otherwise a new error whose message is      *)
(*     the text of the payload.                                             *)
(***************************************************************************)
C16_SyncPanicBecomesError ==
    /\ (syncPc = "running" /\ proc.ends = "panic" /\ proc.blocks = "no")
          => ENABLED SyncEnd
    /\ (syncPc = "returned" /\ proc.ends = "panic")
          => /\ ~syncErr.isNil
             /\ proc.payload.isError => syncErr = proc.payload.err
             /\ proc.payload = PanicInt(2) => syncErr = New("2")
             /\ proc.payload = PanicInt(42) => syncErr = New("42")

C16_Witness ==
    /\ syncPc = "returned"
    /\ syncCalled = 1
    /\ proc.payload = PanicInt(42)
    /\ syncErr.msg = "42"
    /\ syncErr.impl = "errors"

\* the other payload kind: the recovered error is returned as it is
C16_ErrorPayload ==
    /\ syncPc = "returned"
    /\ proc.payload = PanicErr(errSample)
    /\ syncErr = errSample

(***************************************************************************)
(* C17 SafeRunAsync returns its channel without waiting for the action,     *)
(*     invokes the action exactly once in a goroutine, and for every way    *)
(*     the action ends sends exactly one value on the channel of            *)
(*     capacity one: once the action has ended the receive of the caller    *)
(*     completes.                                                           *)
(***************************************************************************)
C17_Delivery ==
    /\ Len(out) <= 1
    /\ outWrites <= 1
    /\ asyncCalled <= 1
    /\ asyncPc = "launched" => ENABLED AsyncReturn
    /\ goPc \in {"running", "ended", "sent"} => asyncCalled = 1
    /\ goPc = "ended" => (outWrites = 0 /\ ENABLED GoSend)
    /\ goPc = "sent" => outWrites = 1
    /\ asyncPc = "received" => (goPc = "sent" /\ recv = goErr /\ Len(out) = 0)

C17_OneValuePerCall ==
    /\ []C17_Delivery
    /\ (goPc = "ended") ~> (asyncPc = "received")

C17_Witness ==
    /\ asyncPc = "received"
    /\ asyncCalled = 1
    /\ outWrites = 1
    /\ proc.payload = PanicInt(2)
    /\ recv = New("2")

\* SafeRunAsync has returned and the goroutine has not yet invoked the action
C17_ReturnedBeforeAction ==
    asyncPc = "returned" /\ goPc = "spawned" /\ asyncCalled = 0

(***************************************************************************)
(* C18 SafeRunSync and SafeRunAsync agree: for every action, the error      *)
(*     SafeRunSync returns is the error received from the channel of        *)
(*     SafeRunAsync.                                                        *)
(***************************************************************************)
C18_SyncAsyncAgree ==
    (syncPc = "returned" /\ asyncPc = "received") => syncErr = recv

(***************************************************************************)
(* C21 On the interrupt path wait is driven by Interrupt alone: wait has    *)
(*     not returned before Interrupt returned, and once Interrupt has       *)
(*     returned wait returns without waiting for Run, also when Run never   *)
(*     returns and its goroutine stays behind.                              *)
(***************************************************************************)
C21_NotBeforeInterrupt ==
    /\ (path = "interrupt" /\ pc \in {"select", "interrupting"}) => ~WaitExited
    /\ (path = "interrupt" /\ pc \in {"check", "done"})
          => /\ interruptCalled = 1
             /\ process.Interrupt.ends = "return"
             /\ process.Interrupt.waitsDone => bodyDone
    /\ (path = "interrupt" /\ pc = "check") => ENABLED WaitCheck

C21_InterruptDrivesWait ==
    /\ []C21_NotBeforeInterrupt
    /\ (path = "interrupt" /\ pc = "check") ~> (pc = "done")

C21_Witness ==
    /\ pc = "done"
    /\ path = "interrupt"
    /\ process.Run.blocks = "forever"
    /\ runPc = "running"
    /\ waitResult = errInterrupt

(***************************************************************************)
(* C22 When wait resolves through the completion of Run, Interrupt is not   *)
(*     invoked in that lifecycle and wait returns exactly the result of     *)
(*     Run, also when ctx is cancelled or SIGINT is delivered at the same   *)
(*     time or later.                                                       *)
(***************************************************************************)
C22_RunPathReturnsRunResult ==
    /\ path = "run" => interruptCalled = 0
    /\ (pc = "done" /\ path = "run")
          => waitResult = RunCompletion(process.Run)

\* the part of C22 the code keeps: Interrupt is not invoked on the run path,
\* and wait returns the value the goroutine delivered
C22_RunPathReturnsDelivered ==
    /\ path = "run" => interruptCalled = 0
    /\ (pc = "done" /\ path = "run") => waitResult = runErr

(***************************************************************************)
(* The states of the lifecycle state machine, from the position of the      *)
(* caller: Created until start returned, Running until wait has left its    *)
(* first select through the ctx branch or has returned, Interrupting        *)
(* until wait returns on that branch, Resolved once wait has returned.      *)
(* A start that rejects the Process creates no lifecycle.                   *)
(***************************************************************************)
Phase(at, branch) ==
    CASE at \in {"init", "validated", "subscribed", "launched"} -> "Created"
      [] at = "rejected" -> "Rejected"
      [] at \in {"started", "select"} -> "Running"
      [] at = "interrupting" -> "Interrupting"
      [] at = "check" -> IF branch = "interrupt" THEN "Interrupting" ELSE "Running"
      [] at = "done" -> "Resolved"
      [] at = "panicked" -> "Panicked"

\* the transitions of the state machine as the specification lists them
StatedEdges ==
    {<<"Created", "Rejected">>, <<"Created", "Running">>,
     <<"Running", "Resolved">>, <<"Running", "Interrupting">>,
     <<"Interrupting", "Resolved">>}

\* the outcome is produced on entering Resolved and by no other step
OutcomeFixed ==
    /\ Phase(pc', path') # "Resolved" => waitResult' = waitResult
    /\ Phase(pc, path) = "Resolved"
          => (pc' = pc /\ path' = path /\ waitResult' = waitResult)

(***************************************************************************)
(* C23 As stated: every lifecycle moves only along Created -> Running ->    *)
(*     Resolved or Created -> Running -> Interrupting -> Resolved;          *)
(*     Resolved is terminal, and the outcome produced on entering it is     *)
(*     changed by no later completion of Run or cancellation.               *)
(***************************************************************************)
C23_StatedStep ==
    /\ Phase(pc', path') # Phase(pc, path)
          => <<Phase(pc, path), Phase(pc', path')>> \in StatedEdges
    /\ OutcomeFixed

C23_StatedTransitions == [][C23_StatedStep]_vars

(***************************************************************************)
(* C23 as amended: the lifecycle moves only along the stated transitions    *)
(*     and, when Interrupt panics, from Interrupting out of wait by that    *)
(*     panic, producing no outcome value; Resolved and the panic exit are   *)
(*     terminal, at most one outcome value is produced, on entering         *)
(*     Resolved, and no later event changes it.                             *)
(***************************************************************************)
C23_Step ==
    /\ Phase(pc', path') # Phase(pc, path)
          => <<Phase(pc, path), Phase(pc', path')>>
                \in StatedEdges \cup {<<"Interrupting", "Panicked">>}
    /\ Phase(pc, path) = "Panicked" => (pc' = pc /\ waitResult' = waitResult)
    /\ OutcomeFixed

C23_Transitions == [][C23_Step]_vars

C23_Witness ==
    /\ pc = "done"
    /\ path = "interrupt"
    /\ sigCount = 1
    /\ ctxDone
    /\ trigger = "ctx"
    /\ deliveredAt = "done"
    /\ ~runErr.isNil
    /\ waitResult = NoError

\* the exit the stated transitions leave out
C23_PanicExit ==
    pc = "panicked" /\ path = "interrupt" /\ waitResult = NoError

(***************************************************************************)
(* C24 wait blocks until a trigger has fired: it leaves its first select,   *)
(*     and so returns, only when the signal-aware context is done or Run    *)
(*     has completed and delivered its result.                              *)
(***************************************************************************)
C24_WaitBlocksUntilTrigger ==
    /\ (pc = "select" /\ sCtx = "open" /\ Len(done) = 0)
          => (~ENABLED WaitSelectCtx /\ ~ENABLED WaitSelectDone)
    /\ pc \in {"interrupting", "check", "done", "panicked"}
          => \/ path = "interrupt" /\ Interrupted
             \/ path = "run" /\ doneWrites = 1 /\ runPc = "finished"

C24_Witness ==
    /\ pc = "done"
    /\ path = "run"
    /\ atCall = "none"
    /\ ~Interrupted
    /\ doneWrites = 1
    /\ interruptCalled = 0

\* wait is blocked: it was called and no trigger has fired
C24_Blocked ==
    pc = "select" /\ sCtx = "open" /\ Len(done) = 0 /\ runPc = "running"

(***************************************************************************)
(* C25 On the interrupt path, when at the second select done is empty or    *)
(*     holds a nil value, wait returns exactly the value Interrupt          *)
(*     returned: a nil result of Run does not replace the error of          *)
(*     Interrupt, and that error is returned unchanged.                     *)
(***************************************************************************)
C25_InterruptValueStands ==
    (pc = "done" /\ path = "interrupt"
     /\ (checkSaw = "empty" \/ (checkSaw = "value" /\ runErr.isNil)))
        => waitResult = process.Interrupt.ret

C25_Witness ==
    /\ pc = "done"
    /\ path = "interrupt"
    /\ checkSaw = "value"
    /\ runErr.isNil
    /\ process.Run.ret.isNil
    /\ deliveredAt = "interrupting"
    /\ process.Interrupt.ret = errInterrupt
    /\ waitResult = errInterrupt

\* the other case: nothing delivered when wait checks done
C25_NothingDelivered ==
    /\ pc = "done"
    /\ path = "interrupt"
    /\ checkSaw = "empty"
    /\ doneWrites = 0
    /\ waitResult = errInterrupt

(***************************************************************************)
(* C26 The goroutine of Run never blocks on its send: once Run has          *)
(*     returned or panicked the send on done is possible and the            *)
(*     goroutine finishes, whether wait took the interrupt branch, has      *)
(*     already returned or is never called; done never holds more than      *)
(*     one value.                                                           *)
(***************************************************************************)
C26_SendPossible ==
    /\ Len(done) <= 1
    /\ runPc = "returned" => (Len(done) = 0 /\ ENABLED RunDeliver)
    /\ runPc = "finished" => (bodyDone /\ doneWrites = 1)

C26_RunBranchTerminates ==
    /\ []C26_SendPossible
    /\ (runPc = "returned") ~> (runPc = "finished")

C26_Witness ==
    /\ runPc = "finished"
    /\ pc = "started"
    /\ Len(done) = 1
    /\ process.Run.ends = "panic"
    /\ Interrupted

\* the send after wait has returned on the interrupt branch
C26_SentAfterWait ==
    /\ runPc = "finished"
    /\ pc = "done"
    /\ path = "interrupt"
    /\ deliveredAt = "done"
    /\ Len(done) = 1

(***************************************************************************)
(* C27 Interrupt is invoked only in response to an interruption: in the     *)
(*     step that invokes it the signal-aware context is already done,       *)
(*     through the cancellation of ctx or a delivered signal, and wait     *)
(*     has not yet released it.                                             *)
(***************************************************************************)
C27_InvocationStep ==
    interruptCalled' # interruptCalled
        => (sCtx = "done" /\ Interrupted /\ notify = 1 /\ pc = "select")

C27_InterruptOnlyAfterInterruption == [][C27_InvocationStep]_vars

C27_Witness ==
    /\ pc = "interrupting"
    /\ interruptCalled = 1
    /\ sigCount = 1
    /\ ~ctxDone
    /\ sCtx = "done"
    /\ runPc = "running"

(***************************************************************************)
(* C28 When Run has completed with a non-nil error R and its goroutine      *)
(*     has delivered before wait is called, wait returns R whether ctx is   *)
(*     cancelled or not, whatever Interrupt returns and whichever branch    *)
(*     of the first select wait takes.                                      *)
(***************************************************************************)
C28_EarlyRunErrorReturned ==
    (pc = "done" /\ atCall \in {"run", "both"}
     /\ ~RunCompletion(process.Run).isNil)
        => waitResult = RunCompletion(process.Run)

\* the part of C28 the code keeps: a non-nil value that is in done when wait
\* is called is the value wait returns, on either branch
C28_EarlyDeliveredErrorReturned ==
    (pc = "done" /\ atCall \in {"run", "both"} /\ ~runErr.isNil)
        => waitResult = runErr

\* that part on the interrupt branch, with Interrupt returning its own error
C28_OverrideReached ==
    /\ pc = "done"
    /\ atCall = "both"
    /\ path = "interrupt"
    /\ process.Interrupt.ret = errInterrupt
    /\ ~runErr.isNil
    /\ waitResult = runErr

(***************************************************************************)
(* C29 As stated: Interrupt is never invoked before the goroutine has       *)
(*     begun executing Run, in every interleaving, also with a ctx that     *)
(*     is cancelled when start is called.                                   *)
(***************************************************************************)
C29_RunInvokedBeforeInterrupt ==
    interruptCalled > 0 => runCalled > 0

(***************************************************************************)
(* C29 as amended: Interrupt is never invoked before the goroutine of Run   *)
(*     has been launched and start has returned; the goroutine may not      *)
(*     have begun executing Run at that point, and once Interrupt waits     *)
(*     for the Run body and has returned, Run has been invoked.             *)
(***************************************************************************)
C29_LaunchedBeforeInterrupt ==
    /\ interruptCalled > 0 => (runPc # "none" /\ waitFunc = "func")
    /\ (interruptCalled > 0 /\ process.Interrupt.waitsDone
        /\ pc \in {"check", "done", "panicked"}) => runCalled = 1

C29_Witness ==
    /\ pc = "interrupting"
    /\ interruptCalled = 1
    /\ runCalled = 0
    /\ runPc = "spawned"
    /\ ctxDone
    /\ atCall = "ctx"

(***************************************************************************)
(* C30 The signal subscription made by a successful start is released by    *)
(*     wait alone: it is registered from the subscription on until wait     *)
(*     exits, and stays registered while wait has not been called, also     *)
(*     after Run has completed and delivered its result.                    *)
(***************************************************************************)
C30_ReleasedOnlyByWait ==
    /\ pc \in {"subscribed", "launched", "started", "select", "interrupting", "check"}
          => notify = 1
    /\ (pc = "started" /\ ~Interrupted) => sCtx = "open"
    /\ notify = 0 => (~StartReturned \/ pc = "rejected" \/ WaitExited)

C30_Witness ==
    /\ pc = "started"
    /\ runPc = "finished"
    /\ Len(done) = 1
    /\ process.Run.ends = "return"
    /\ ~Interrupted
    /\ sCtx = "open"
    /\ notify = 1

====
